---- MODULE Spec2Model ----
(***************************************************************************)
(* State-machine model of run_experiment.py: main(), experiment(),         *)
(* clear_directory(), train_model(), test_model() and the persistence      *)
(* helpers (save_embeddings, save_checkpoint, save_loss, load_model,       *)
(* freeze_weights).                                                        *)
(*                                                                         *)
(* The program is a sequential script; pc is its position.  Tensors are    *)
(* abstracted to [init, upd]: the values a parameter was last set to and   *)
(* the number of optimizer updates applied to it since.  The experiment    *)
(* directory is modelled by its top-level entries.                         *)
(***************************************************************************)
EXTENDS Integers, Sequences, FiniteSets, TLC

VARIABLES
    pc,                 \* position in the script
    entry,              \* function the run was started at
    err,                \* exception that ended the run ("" when none)
    opt,                \* Options: experiment_id, epochs, lock_weights, starter_model_path
    rootExists,         \* os.path.exists('experiments')
    dirExists,          \* os.path.exists('experiments/<id>')
    entries,            \* top-level entries of experiments/<id>: name -> kind
    entries0,           \* entries when experiment() was entered
    existed0,           \* whether experiments/<id> existed when experiment() was entered
    todo,               \* entries os.listdir returned that the loop has not visited
    undeletable,        \* entries whose unlink / rmtree raised
    errlog,             \* entries logged by logging.error in clear_directory
    cleared,            \* clear_directory returned
    response,           \* what input() returned
    prompts,            \* number of input() calls
    nb,                 \* number of batches of the train / valid / test loader
    starter,            \* state dict read from opt.starter_model_path
    W,                  \* model -> parameter -> [init, upd]
    requires_grad,      \* model -> parameter -> BOOLEAN
    mode,               \* model -> "train" | "eval"
    seeded,             \* model -> seed its embedding was re-initialised from (0: none)
    asserted,           \* the assertion mse == 0.0 was passed
    cur,                \* model_id of the running train_model call
    epoch,              \* loop variable of train_model
    batch,              \* batches consumed of the loader being iterated
    dataset,            \* dataset argument of the running test_model call
    train_perplexities,
    valid_perplexities,
    test_perplexity,
    snapshots,          \* model -> epoch -> embedding written by save_embeddings
    checkpoints,        \* model -> set of epochs save_checkpoint wrote
    csv,                \* model -> rows of perplexities.csv
    plotted,            \* model -> number of plots saved
    returned,           \* model -> train_model returned
    events              \* what train_model did, in order

vars == <<pc, entry, err, opt, rootExists, dirExists, entries, entries0, existed0,
          todo, undeletable, errlog, cleared, response, prompts, nb, starter, W,
          requires_grad, mode, seeded, asserted, cur, epoch, batch, dataset,
          train_perplexities, valid_perplexities, test_perplexity, snapshots,
          checkpoints, csv, plotted, returned, events>>

fsVars == <<rootExists, dirExists, entries, entries0, existed0, todo, undeletable,
            errlog, cleared, response, prompts>>
modelVars == <<W, requires_grad, mode, seeded, asserted, starter>>
trainVars == <<cur, epoch, batch, dataset, train_perplexities, valid_perplexities,
               test_perplexity, snapshots, checkpoints, csv, plotted, returned, events>>

----------------------------------------------------------------------------
(* Bounds of the model *)

MaxEpochs == 11         \* opt.epochs when train_model is analysed on its own
MaxExpEpochs == 2       \* opt.epochs when experiment() is called directly
MaxBatches == 2         \* batches per loader when train_model is analysed on its own
MaxExpBatches == 1      \* batches per loader built by experiment()
EmbedLen == 2           \* number of entries of the embedding weight

(* Program constants *)

CheckpointEvery == 10
Seed1 == 1
Seed2 == 2
MainExperimentId == 2
MainEpochs == 2

----------------------------------------------------------------------------
(* Values *)

Models == {1, 2}
Params == {"embed", "body"}
Names == {"log", "models", "extra"}
Absent == "absent"
Kinds == {"file", "link", "dir", "other"}
None == <<"None">>
NaN == <<"NaN">>

ExperimentIds == {0, MainExperimentId}

WeightVals == {0, 1}

Vectors == [1..EmbedLen -> WeightVals]

\* The characters the responses are made of, and str.lower() on them.
LowerChar(c) ==
    CASE c = "Y" -> "y"
      [] c = "E" -> "e"
      [] c = "S" -> "s"
      [] c = "N" -> "n"
      [] OTHER -> c

lower(s) == [i \in DOMAIN s |-> LowerChar(s[i])]

Responses ==
    { <<>>, <<"y">>, <<"Y">>, <<"n">>, <<"N">>,
      <<"y", "e", "s">>, <<"Y", "E", "S">>, <<" ", "y">> }

\* response.lower() == 'y'
OverwriteNoLower(r) == r = <<"y">>
Overwrite(r) == lower(r) = <<"y">>

\* The filesystem states a run can start in.
NoEntries == [n \in Names |-> Absent]

\* main()'s hard-coded args_dict.
MainOpt ==
    [experiment_id |-> MainExperimentId, epochs |-> MainEpochs,
     lock_weights |-> TRUE, starter_model_path |-> TRUE]

Opts ==
    [experiment_id : ExperimentIds, epochs : 0..MaxExpEpochs,
     lock_weights : BOOLEAN, starter_model_path : BOOLEAN]

FreshTensor(v) == [init |-> v, upd |-> 0]

\* State dicts a checkpoint file can hold.
StateDicts == [embed : Vectors, body : {1}]
Missing == [embed |-> <<>>, body |-> -1]

Loaders == {"train", "valid", "test"}

----------------------------------------------------------------------------
(* Initial states *)

InitRest ==
    /\ err = ""
    /\ entries0 = entries
    /\ existed0 = dirExists
    /\ todo = {}
    /\ undeletable = {}
    /\ errlog = {}
    /\ cleared = FALSE
    /\ response = <<>>
    /\ prompts = 0
    /\ starter = Missing
    /\ W = [m \in Models |->
              [p \in Params |->
                 FreshTensor(IF p = "embed" THEN [i \in 1..EmbedLen |-> 0] ELSE 0)]]
    /\ requires_grad = [m \in Models |-> [p \in Params |-> TRUE]]
    /\ seeded = [m \in Models |-> 0]
    /\ asserted = FALSE
    /\ epoch = 0
    /\ batch = 0
    /\ dataset = "valid"
    /\ train_perplexities = <<>>
    /\ valid_perplexities = <<>>
    /\ test_perplexity = None
    /\ snapshots = [m \in Models |-> {}]
    /\ checkpoints = [m \in Models |-> {}]
    /\ csv = [m \in Models |-> [written |-> 0, rows |-> {}]]
    /\ plotted = [m \in Models |-> 0]
    /\ returned = [m \in Models |-> FALSE]
    /\ events = <<>>

\* What an earlier run of the experiment leaves in experiments/<id>.
EarlierRun == [NoEntries EXCEPT !["log"] = "file", !["models"] = "dir"]

\* The experiment directory does not exist, is empty, or is the directory of
\* an earlier run, with or without a file of the user's in it.
InitFS ==
    \/ /\ rootExists \in BOOLEAN
       /\ dirExists = FALSE
       /\ entries = NoEntries
    \/ /\ rootExists = TRUE
       /\ dirExists = TRUE
       /\ entries \in {NoEntries, EarlierRun, [EarlierRun EXCEPT !["extra"] = "file"]}

\* python run_experiment.py
InitMain ==
    /\ entry = "main"
    /\ pc = "main"
    /\ opt = MainOpt
    /\ InitFS
    /\ nb = [l \in Loaders |-> 0]
    /\ mode = [m \in Models |-> "train"]
    /\ cur = 1
    /\ InitRest

\* experiment(args_dict) called with any arguments, on no directory or on the
\* directory of an earlier run
InitExperiment ==
    /\ entry = "experiment"
    /\ pc = "experiment"
    /\ opt \in Opts
    /\ \/ /\ rootExists \in BOOLEAN
          /\ dirExists = FALSE
          /\ entries = NoEntries
       \/ /\ rootExists = TRUE
          /\ dirExists = TRUE
          /\ entries = EarlierRun
    /\ nb = [l \in Loaders |-> 0]
    /\ mode = [m \in Models |-> "train"]
    /\ cur = 1
    /\ InitRest

\* clear_directory(directory) called on its own, on a directory holding any
\* entries
InitClear ==
    /\ entry = "clear_directory"
    /\ pc = "clear_directory"
    /\ opt = MainOpt
    /\ rootExists = TRUE
    /\ dirExists = TRUE
    /\ entries \in [Names -> Kinds \cup {Absent}]
    /\ nb = [l \in Loaders |-> 0]
    /\ mode = [m \in Models |-> "train"]
    /\ cur = 1
    /\ InitRest

\* train_model(model, optimizer, opt, model_id) called on its own
InitTrain ==
    /\ entry = "train_model"
    /\ pc = "train_model"
    /\ opt \in [experiment_id : {MainExperimentId}, epochs : 0..MaxEpochs,
                lock_weights : {FALSE}, starter_model_path : {FALSE}]
    /\ rootExists = TRUE
    /\ dirExists = TRUE
    /\ entries = [NoEntries EXCEPT !["models"] = "dir"]
    /\ nb \in [Loaders -> 0..MaxBatches]
    /\ cur \in Models
    /\ mode \in [Models -> {"train", "eval"}]
    /\ InitRest

Init == InitMain \/ InitExperiment

----------------------------------------------------------------------------
(* main() *)

Crash(e) ==
    /\ pc' = "crashed"
    /\ err' = e

\* create_folder_if_not_exists('experiments')
create_folder_if_not_exists ==
    /\ pc = "main"
    /\ rootExists' = TRUE
    /\ pc' = "file_handler"
    /\ UNCHANGED <<entry, err, opt, dirExists, entries, entries0, existed0, todo,
                   undeletable, errlog, cleared, response, prompts, nb>>
    /\ UNCHANGED <<modelVars, trainVars>>

\* logging.FileHandler(log_filename) opens the file for appending at once; the
\* open fails when experiments/<id> does not exist.
FileHandler ==
    /\ pc = "file_handler"
    /\ IF dirExists
         THEN /\ entries' = [entries EXCEPT !["log"] = "file"]
              /\ pc' = "experiment"
              /\ err' = err
         ELSE /\ Crash("FileHandler: FileNotFoundError")
              /\ entries' = entries
    /\ UNCHANGED <<entry, opt, rootExists, dirExists, entries0, existed0, todo,
                   undeletable, errlog, cleared, response, prompts, nb>>
    /\ UNCHANGED <<modelVars, trainVars>>

----------------------------------------------------------------------------
(* experiment(): directory set-up *)

\* directory = ...; if os.path.exists(directory): ... else: os.makedirs(directory)
CheckDirectory ==
    /\ pc = "experiment"
    /\ entries0' = entries
    /\ existed0' = dirExists
    /\ IF dirExists
         THEN /\ pc' = "prompt"
              /\ UNCHANGED <<rootExists, dirExists>>
         ELSE /\ rootExists' = TRUE
              /\ dirExists' = TRUE
              /\ pc' = "makedirs"
    /\ UNCHANGED <<entry, err, opt, entries, todo, undeletable, errlog, cleared,
                   response, prompts, nb>>
    /\ UNCHANGED <<modelVars, trainVars>>

\* response = input(...); 'y' in either case overwrites, anything else exits
Prompt ==
    /\ pc = "prompt"
    /\ \E r \in Responses :
         /\ response' = r
         /\ prompts' = prompts + 1
         /\ pc' = IF Overwrite(r) THEN "clear_directory" ELSE "exited"
    /\ UNCHANGED <<entry, err, opt, rootExists, dirExists, entries, entries0,
                   existed0, todo, undeletable, errlog, cleared, nb>>
    /\ UNCHANGED <<modelVars, trainVars>>

\* for filename in os.listdir(directory)
ListDir ==
    /\ pc = "clear_directory"
    /\ todo' = {n \in Names : entries[n] # Absent}
    /\ pc' = "clearing"
    /\ UNCHANGED <<entry, err, opt, rootExists, dirExists, entries, entries0,
                   existed0, undeletable, errlog, cleared, response, prompts, nb>>
    /\ UNCHANGED <<modelVars, trainVars>>

\* The loop body without its try/except: the exception leaves clear_directory.
ClearEntryNoCatch ==
    /\ pc = "clearing"
    /\ \E n \in todo, raises \in BOOLEAN :
         /\ todo' = todo \ {n}
         /\ IF entries[n] \in {"file", "link", "dir"}
              THEN IF raises
                     THEN /\ undeletable' = undeletable \cup {n}
                          /\ Crash("OSError")
                          /\ UNCHANGED <<entries, errlog>>
                     ELSE /\ entries' = [entries EXCEPT ![n] = Absent]
                          /\ UNCHANGED <<pc, err, undeletable, errlog>>
              ELSE UNCHANGED <<pc, err, entries, undeletable, errlog>>
    /\ UNCHANGED <<entry, opt, rootExists, dirExists, entries0, existed0, cleared,
                   response, prompts, nb>>
    /\ UNCHANGED <<modelVars, trainVars>>

\* One iteration of the loop of clear_directory, in whatever order os.listdir
\* gave: files and links are unlinked, directories removed with rmtree, anything
\* else is skipped; a deletion that raises is logged and the loop goes on.
ClearEntry ==
    /\ pc = "clearing"
    /\ \E n \in todo, raises \in BOOLEAN :
         /\ todo' = todo \ {n}
         /\ IF entries[n] \in {"file", "link", "dir"}
              THEN IF raises
                     THEN /\ undeletable' = undeletable \cup {n}
                          /\ errlog' = errlog \cup {n}
                          /\ entries' = entries
                     ELSE /\ entries' = [entries EXCEPT ![n] = Absent]
                          /\ UNCHANGED <<undeletable, errlog>>
              ELSE UNCHANGED <<entries, undeletable, errlog>>
    /\ UNCHANGED <<pc, err>>
    /\ UNCHANGED <<entry, opt, rootExists, dirExists, entries0, existed0, cleared,
                   response, prompts, nb>>
    /\ UNCHANGED <<modelVars, trainVars>>

\* logging.info('Directory cleared'); return
ClearReturn ==
    /\ pc = "clearing"
    /\ todo = {}
    /\ cleared' = TRUE
    /\ pc' = IF entry = "clear_directory" THEN "done" ELSE "makedirs"
    /\ UNCHANGED <<entry, err, opt, rootExists, dirExists, entries, entries0,
                   existed0, todo, undeletable, errlog, response, prompts, nb>>
    /\ UNCHANGED <<modelVars, trainVars>>

\* os.makedirs of models/1/embeddings and models/2/embeddings
MakeModelDirs ==
    /\ pc = "makedirs"
    /\ IF entries["models"] \in {Absent, "dir"}
         THEN /\ entries' = [entries EXCEPT !["models"] = "dir"]
              /\ pc' = "loaders"
              /\ err' = err
         ELSE /\ Crash("NotADirectoryError")
              /\ entries' = entries
    /\ UNCHANGED <<entry, opt, rootExists, dirExists, entries0, existed0, todo,
                   undeletable, errlog, cleared, response, prompts, nb>>
    /\ UNCHANGED <<modelVars, trainVars>>

----------------------------------------------------------------------------
(* experiment(): data, models, shared starter weights *)

\* DataLoader(..., drop_last=True) over the three corpora: each loader yields
\* some number of batches, none when its corpus is shorter than one batch.
BuildLoaders ==
    /\ pc = "loaders"
    /\ nb' \in [Loaders -> 0..MaxExpBatches]
    /\ pc' = "init_models"
    /\ UNCHANGED <<entry, err, opt, fsVars, modelVars, trainVars>>

\* Embedding weights init_models can give a model.
InitEmbeds == {[i \in 1..EmbedLen |-> v] : v \in WeightVals}

\* model1, model2 = init_models(opt); if opt.lock_weights and opt.starter_model_path
InitModels ==
    /\ pc = "init_models"
    /\ \E e1 \in InitEmbeds, e2 \in InitEmbeds :
         W' = [m \in Models |->
                 [p \in Params |->
                    FreshTensor(IF p = "embed" THEN (IF m = 1 THEN e1 ELSE e2) ELSE 0)]]
    /\ mode' = [m \in Models |-> "train"]
    /\ requires_grad' = [m \in Models |-> [p \in Params |-> TRUE]]
    /\ pc' = IF opt.lock_weights /\ opt.starter_model_path
               THEN "load_model" ELSE "optimizers"
    /\ UNCHANGED <<entry, err, opt, fsVars, nb, seeded, asserted, starter, trainVars>>

\* A load that leaves the embedding as init_models made it.
load_model_keep_embed(w, m, checkpoint) ==
    [w EXCEPT ![m] = [p \in Params |->
                        IF p = "embed" THEN @[p] ELSE FreshTensor(checkpoint[p])]]

\* model.load_state_dict(checkpoint['model_state_dict'])
load_model(w, m, checkpoint) ==
    [w EXCEPT ![m] = [p \in Params |-> FreshTensor(checkpoint[p])]]

\* load_model(model1, path); load_model(model2, path): torch.load raises when
\* the file is missing.
LoadStarter ==
    /\ pc = "load_model"
    /\ \E c \in StateDicts \cup {Missing} :
         IF c = Missing
           THEN /\ Crash("torch.load: FileNotFoundError")
                /\ UNCHANGED <<starter, W>>
           ELSE /\ starter' = c
                /\ W' = load_model(load_model(W, 1, c), 2, c)
                /\ pc' = "freeze"
                /\ err' = err
    /\ UNCHANGED <<entry, opt, fsVars, nb, requires_grad, mode, seeded, asserted,
                   trainVars>>

\* A freeze that does not switch the embedding back on.
freeze_all(rg, m) ==
    [rg EXCEPT ![m] = [p \in Params |-> FALSE]]

\* every parameter's requires_grad = False, then the embedding weight's = True
freeze_weights(rg, m) ==
    [rg EXCEPT ![m] = [p \in Params |-> p = "embed"]]

FreezeBoth ==
    /\ pc = "freeze"
    /\ requires_grad' = freeze_weights(freeze_weights(requires_grad, 1), 2)
    /\ pc' = "assert"
    /\ UNCHANGED <<entry, err, opt, fsVars, nb, W, mode, seeded, asserted, starter,
                   trainVars>>

RECURSIVE SumSq(_, _, _)
SumSq(a, b, i) ==
    IF i = 0 THEN 0 ELSE (a[i] - b[i]) * (a[i] - b[i]) + SumSq(a, b, i - 1)

\* torch.mean((tensor1 - tensor2) ** 2), as the fraction <<sum, count>>
calculate_mse_torch(tensor1, tensor2) ==
    <<SumSq(tensor1.init, tensor2.init, Len(tensor1.init)), Len(tensor1.init)>>

\* mse = calculate_mse_torch(...); assert mse == 0.0
AssertMse ==
    /\ pc = "assert"
    /\ IF calculate_mse_torch(W[1]["embed"], W[2]["embed"])[1] = 0
         THEN /\ asserted' = TRUE
              /\ pc' = "reinit"
              /\ err' = err
         ELSE /\ Crash("AssertionError")
              /\ asserted' = asserted
    /\ UNCHANGED <<entry, opt, fsVars, nb, W, requires_grad, mode, seeded, starter,
                   trainVars>>

\* The i-th value the generator draws after torch.manual_seed(seed).
Draw(seed, i) == seed * (EmbedLen + 1) + i

\* torch.manual_seed(seed); nn.init.xavier_normal_(weight)
xavier_normal_(seed) == FreshTensor([i \in 1..EmbedLen |-> Draw(seed, i)])

Reinit ==
    /\ pc = "reinit"
    /\ W' = [W EXCEPT ![1]["embed"] = xavier_normal_(Seed1),
                      ![2]["embed"] = xavier_normal_(Seed2)]
    /\ seeded' = [seeded EXCEPT ![1] = Seed1, ![2] = Seed2]
    /\ pc' = "optimizers"
    /\ UNCHANGED <<entry, err, opt, fsVars, nb, requires_grad, mode, asserted,
                   starter, trainVars>>

\* opt.optimizer1 = Adam(...); opt.optimizer2 = Adam(...); train_model(model1, ...)
CreateOptimizers ==
    /\ pc = "optimizers"
    /\ cur' = 1
    /\ pc' = "train_model"
    /\ UNCHANGED <<entry, err, opt, fsVars, nb, modelVars>>
    /\ UNCHANGED <<epoch, batch, dataset, train_perplexities, valid_perplexities,
                   test_perplexity, snapshots, checkpoints, csv, plotted, returned,
                   events>>

----------------------------------------------------------------------------
(* train_model() and test_model() *)

N == opt.epochs

\* A save that leaves the epoch out of the file name.
save_embeddings_one_file(snaps, m, e) ==
    [snaps EXCEPT ![m] = {[epoch |-> 0, weights |-> W[m]["embed"]]}]

\* torch.save(weights, .../embed_weights_epoch_<epoch>.pt)
save_embeddings(snaps, m, e) ==
    [snaps EXCEPT ![m] = {s \in @ : s.epoch # e}
                           \cup {[epoch |-> e, weights |-> W[m]["embed"]]}]

\* torch.save({...}, .../checkpoint_<epoch>.pt)
save_checkpoint(cps, m, e) ==
    [cps EXCEPT ![m] = @ \cup {e}]

\* A condition that leaves out the first epoch.
CheckpointDueTens(e) == e % CheckpointEvery = 0

\* if (epoch) % 10 == 0 or epoch==1
CheckpointDue(e) == e % CheckpointEvery = 0 \/ e = 1

\* optimizer.step(): every parameter that requires a gradient is updated
optimizer_step(w, m) ==
    [w EXCEPT ![m] = [p \in Params |->
                        IF requires_grad[m][p]
                          THEN [@[p] EXCEPT !.upd = @ + 1]
                          ELSE @[p]]]

\* The data frame of save_loss written with to_csv: one row per list element,
\* indexed from 0; df.at[test_epoch, ...] sets the cell of an existing row and
\* otherwise appends a row whose other cells are NaN.
save_loss(tp, vp, test, test_epoch) ==
    LET rows == {[index |-> i - 1, train |-> tp[i], valid |-> vp[i], test |-> None] :
                    i \in 1..Len(tp)}
    IN  IF test_epoch \in {r.index : r \in rows}
          THEN {IF r.index = test_epoch THEN [r EXCEPT !.test = test] ELSE r :
                   r \in rows}
          ELSE rows \cup {[index |-> test_epoch, train |-> NaN, valid |-> NaN,
                           test |-> test]}

\* df.to_csv(path): a missing value, None or NaN, is written as an empty field
Empty == <<"">>

to_csv(df) ==
    {[c \in {"index", "train", "valid", "test"} |->
        IF c # "index" /\ r[c] \in {None, NaN} THEN Empty ELSE r[c]] : r \in df}

\* save_embeddings(model, model_id, 0, opt)
SaveEmbeddings0 ==
    /\ pc = "train_model"
    /\ snapshots' = save_embeddings(snapshots, cur, 0)
    /\ events' = Append(events, <<"snapshot", cur, 0>>)
    /\ pc' = "checkpoint0"
    /\ UNCHANGED <<entry, err, opt, fsVars, nb, modelVars>>
    /\ UNCHANGED <<cur, epoch, batch, dataset, train_perplexities,
                   valid_perplexities, test_perplexity, checkpoints, csv, plotted,
                   returned>>

\* save_checkpoint(model, optimizer, 0, model_id, opt); the lists start empty
SaveCheckpoint0 ==
    /\ pc = "checkpoint0"
    /\ checkpoints' = save_checkpoint(checkpoints, cur, 0)
    /\ events' = Append(events, <<"checkpoint", cur, 0>>)
    /\ train_perplexities' = <<>>
    /\ valid_perplexities' = <<>>
    /\ epoch' = 1
    /\ pc' = "epoch"
    /\ UNCHANGED <<entry, err, opt, fsVars, nb, modelVars>>
    /\ UNCHANGED <<cur, batch, dataset, test_perplexity, snapshots, csv, plotted,
                   returned>>

\* An epoch that starts without model.train().
EpochBeginNoTrainMode ==
    /\ pc = "epoch"
    /\ epoch <= N
    /\ batch' = 0
    /\ pc' = "batches"
    /\ UNCHANGED <<entry, err, opt, fsVars, nb, modelVars>>
    /\ UNCHANGED <<cur, epoch, dataset, train_perplexities, valid_perplexities,
                   test_perplexity, snapshots, checkpoints, csv, plotted, returned,
                   events>>

\* for epoch in range(1, opt.epochs+1): model.train()
EpochBegin ==
    /\ pc = "epoch"
    /\ epoch <= N
    /\ mode' = [mode EXCEPT ![cur] = "train"]
    /\ batch' = 0
    /\ pc' = "batches"
    /\ UNCHANGED <<entry, err, opt, fsVars, nb, W, requires_grad, seeded, asserted,
                   starter>>
    /\ UNCHANGED <<cur, epoch, dataset, train_perplexities, valid_perplexities,
                   test_perplexity, snapshots, checkpoints, csv, plotted, returned,
                   events>>

\* the loop is over: test_model(model, opt, dataset='test')
TrainLoopExit ==
    /\ pc = "epoch"
    /\ epoch > N
    /\ dataset' = "test"
    /\ pc' = "test_model"
    /\ UNCHANGED <<entry, err, opt, fsVars, nb, modelVars>>
    /\ UNCHANGED <<cur, epoch, batch, train_perplexities, valid_perplexities,
                   test_perplexity, snapshots, checkpoints, csv, plotted, returned,
                   events>>

\* one training batch: forward, loss, zero_grad, backward, optimizer.step()
TrainBatch ==
    /\ pc = "batches"
    /\ batch < nb["train"]
    /\ W' = optimizer_step(W, cur)
    /\ batch' = batch + 1
    /\ events' = Append(events, <<"batch", cur, epoch>>)
    /\ UNCHANGED <<pc, entry, err, opt, fsVars, nb, requires_grad, mode, seeded,
                   asserted, starter>>
    /\ UNCHANGED <<cur, epoch, dataset, train_perplexities, valid_perplexities,
                   test_perplexity, snapshots, checkpoints, csv, plotted, returned>>

\* avg_loss = total_loss/total_batches; the train perplexity is appended and
\* test_model(model, opt, dataset='valid') is called
EpochTrainEnd ==
    /\ pc = "batches"
    /\ batch = nb["train"]
    /\ IF batch = 0
         THEN /\ Crash("ZeroDivisionError")
              /\ UNCHANGED <<train_perplexities, dataset>>
         ELSE /\ train_perplexities' = Append(train_perplexities, <<"train", cur, epoch>>)
              /\ dataset' = "valid"
              /\ pc' = "test_model"
              /\ err' = err
    /\ UNCHANGED <<entry, opt, fsVars, nb, modelVars>>
    /\ UNCHANGED <<cur, epoch, batch, valid_perplexities, test_perplexity, snapshots,
                   checkpoints, csv, plotted, returned, events>>

\* test_model: model.eval()
TestModelBegin ==
    /\ pc = "test_model"
    /\ mode' = [mode EXCEPT ![cur] = "eval"]
    /\ batch' = 0
    /\ pc' = "eval_batches"
    /\ UNCHANGED <<entry, err, opt, fsVars, nb, W, requires_grad, seeded, asserted,
                   starter>>
    /\ UNCHANGED <<cur, epoch, dataset, train_perplexities, valid_perplexities,
                   test_perplexity, snapshots, checkpoints, csv, plotted, returned,
                   events>>

\* test_model: one batch under torch.no_grad()
EvalBatch ==
    /\ pc = "eval_batches"
    /\ batch < nb[dataset]
    /\ batch' = batch + 1
    /\ UNCHANGED <<pc, entry, err, opt, fsVars, nb, modelVars>>
    /\ UNCHANGED <<cur, epoch, dataset, train_perplexities, valid_perplexities,
                   test_perplexity, snapshots, checkpoints, csv, plotted, returned,
                   events>>

\* A return from the validation pass that goes past save_embeddings.
TestModelReturnSkipSnapshot ==
    /\ pc = "eval_batches"
    /\ batch = nb[dataset]
    /\ IF batch = 0
         THEN /\ Crash("ZeroDivisionError")
              /\ UNCHANGED <<valid_perplexities, test_perplexity, events>>
         ELSE IF dataset = "valid"
           THEN /\ valid_perplexities' = Append(valid_perplexities, <<"valid", cur, epoch>>)
                /\ events' = Append(events, <<"valid", cur, epoch>>)
                /\ pc' = "checkpoint"
                /\ UNCHANGED <<err, test_perplexity>>
           ELSE /\ test_perplexity' = <<"test", cur, N>>
                /\ events' = Append(events, <<"test", cur, N>>)
                /\ pc' = "plot"
                /\ UNCHANGED <<err, valid_perplexities>>
    /\ UNCHANGED <<entry, opt, fsVars, nb, modelVars>>
    /\ UNCHANGED <<cur, epoch, batch, dataset, train_perplexities, snapshots,
                   checkpoints, csv, plotted, returned>>

\* test_model: avg_loss = total_loss/total_batches; return math.exp(avg_loss);
\* train_model keeps the value as this epoch's valid perplexity or as the test
\* perplexity
TestModelReturn ==
    /\ pc = "eval_batches"
    /\ batch = nb[dataset]
    /\ IF batch = 0
         THEN /\ Crash("ZeroDivisionError")
              /\ UNCHANGED <<valid_perplexities, test_perplexity, events>>
         ELSE IF dataset = "valid"
           THEN /\ valid_perplexities' = Append(valid_perplexities, <<"valid", cur, epoch>>)
                /\ events' = Append(events, <<"valid", cur, epoch>>)
                /\ pc' = "save_embeddings"
                /\ UNCHANGED <<err, test_perplexity>>
           ELSE /\ test_perplexity' = <<"test", cur, N>>
                /\ events' = Append(events, <<"test", cur, N>>)
                /\ pc' = "plot"
                /\ UNCHANGED <<err, valid_perplexities>>
    /\ UNCHANGED <<entry, opt, fsVars, nb, modelVars>>
    /\ UNCHANGED <<cur, epoch, batch, dataset, train_perplexities, snapshots,
                   checkpoints, csv, plotted, returned>>

\* save_embeddings(model, model_id, epoch, opt)
SaveEmbeddingsEpoch ==
    /\ pc = "save_embeddings"
    /\ snapshots' = save_embeddings(snapshots, cur, epoch)
    /\ events' = Append(events, <<"snapshot", cur, epoch>>)
    /\ pc' = "checkpoint"
    /\ UNCHANGED <<entry, err, opt, fsVars, nb, modelVars>>
    /\ UNCHANGED <<cur, epoch, batch, dataset, train_perplexities,
                   valid_perplexities, test_perplexity, checkpoints, csv, plotted,
                   returned>>

\* if (epoch) % 10 == 0 or epoch==1: save_checkpoint(...); next epoch
MaybeCheckpoint ==
    /\ pc = "checkpoint"
    /\ IF CheckpointDue(epoch)
         THEN /\ checkpoints' = save_checkpoint(checkpoints, cur, epoch)
              /\ events' = Append(events, <<"checkpoint", cur, epoch>>)
         ELSE UNCHANGED <<checkpoints, events>>
    /\ epoch' = epoch + 1
    /\ pc' = "epoch"
    /\ UNCHANGED <<entry, err, opt, fsVars, nb, modelVars>>
    /\ UNCHANGED <<cur, batch, dataset, train_perplexities, valid_perplexities,
                   test_perplexity, snapshots, csv, plotted, returned>>

\* plot_perplexity(train_perplexities, valid_perplexities, model_id, opt)
PlotPerplexity ==
    /\ pc = "plot"
    /\ plotted' = [plotted EXCEPT ![cur] = @ + 1]
    /\ events' = Append(events, <<"plot", cur, N>>)
    /\ pc' = "save_loss"
    /\ UNCHANGED <<entry, err, opt, fsVars, nb, modelVars>>
    /\ UNCHANGED <<cur, epoch, batch, dataset, train_perplexities,
                   valid_perplexities, test_perplexity, snapshots, checkpoints, csv,
                   returned>>

\* last_epoch = opt.epochs; save_loss(..., test_perplexity, last_epoch, ...)
SaveLoss ==
    /\ pc = "save_loss"
    /\ csv' = [csv EXCEPT ![cur] =
                 [written |-> @.written + 1,
                  rows |-> to_csv(save_loss(train_perplexities, valid_perplexities,
                                            test_perplexity, N))]]
    /\ events' = Append(events, <<"csv", cur, N>>)
    /\ pc' = "return"
    /\ UNCHANGED <<entry, err, opt, fsVars, nb, modelVars>>
    /\ UNCHANGED <<cur, epoch, batch, dataset, train_perplexities,
                   valid_perplexities, test_perplexity, snapshots, checkpoints,
                   plotted, returned>>

\* A caller that trains model 2 whatever the experiment is.
TrainReturnAlwaysSecond ==
    /\ pc = "return"
    /\ returned' = [returned EXCEPT ![cur] = TRUE]
    /\ IF entry # "train_model" /\ cur = 1
         THEN /\ cur' = 2
              /\ pc' = "train_model"
         ELSE /\ cur' = cur
              /\ pc' = "done"
    /\ UNCHANGED <<entry, err, opt, fsVars, nb, modelVars>>
    /\ UNCHANGED <<epoch, batch, dataset, train_perplexities, valid_perplexities,
                   test_perplexity, snapshots, checkpoints, csv, plotted, events>>

\* return model; in experiment(): model 2 is trained next unless
\* opt.experiment_id is 0
TrainReturn ==
    /\ pc = "return"
    /\ returned' = [returned EXCEPT ![cur] = TRUE]
    /\ IF entry # "train_model" /\ cur = 1 /\ opt.experiment_id # 0
         THEN /\ cur' = 2
              /\ pc' = "train_model"
         ELSE /\ cur' = cur
              /\ pc' = "done"
    /\ UNCHANGED <<entry, err, opt, fsVars, nb, modelVars>>
    /\ UNCHANGED <<epoch, batch, dataset, train_perplexities, valid_perplexities,
                   test_perplexity, snapshots, checkpoints, csv, plotted, events>>

----------------------------------------------------------------------------
(* Specifications *)

TrainNext ==
    \/ SaveEmbeddings0
    \/ SaveCheckpoint0
    \/ EpochBegin
    \/ TrainLoopExit
    \/ TrainBatch
    \/ EpochTrainEnd
    \/ TestModelBegin
    \/ EvalBatch
    \/ TestModelReturn
    \/ SaveEmbeddingsEpoch
    \/ MaybeCheckpoint
    \/ PlotPerplexity
    \/ SaveLoss
    \/ TrainReturn

Next ==
    \/ create_folder_if_not_exists
    \/ FileHandler
    \/ CheckDirectory
    \/ Prompt
    \/ ListDir
    \/ ClearEntry
    \/ ClearReturn
    \/ MakeModelDirs
    \/ BuildLoaders
    \/ InitModels
    \/ LoadStarter
    \/ FreezeBoth
    \/ AssertMse
    \/ Reinit
    \/ CreateOptimizers
    \/ TrainNext

\* python run_experiment.py, or experiment(args_dict) with any arguments
Spec == Init /\ [][Next]_vars

\* train_model(model, optimizer, opt, model_id) on its own
SpecTrain == InitTrain /\ [][TrainNext]_vars

ClearNext ==
    \/ ListDir
    \/ ClearEntry
    \/ ClearReturn

\* clear_directory(directory) on its own
SpecClear == InitClear /\ [][ClearNext]_vars

----------------------------------------------------------------------------
(* Properties *)

Repeat(x, k) == [i \in 1..k |-> x]

IsPrefix(s, t) == Len(s) <= Len(t) /\ SubSeq(t, 1, Len(s)) = s

\* What the epochs 1..e of a train_model call on model m are to do, in order.
RECURSIVE EpochsEvents(_, _)
EpochsEvents(m, e) ==
    IF e = 0
      THEN <<>>
      ELSE EpochsEvents(m, e - 1)
             \o Repeat(<<"batch", m, e>>, nb["train"])
             \o << <<"valid", m, e>>, <<"snapshot", m, e>> >>
             \o (IF e % 10 = 0 \/ e = 1 THEN << <<"checkpoint", m, e>> >> ELSE <<>>)

ExpectedEvents(m) ==
    << <<"snapshot", m, 0>>, <<"checkpoint", m, 0>> >>
      \o EpochsEvents(m, N)
      \o << <<"test", m, N>>, <<"plot", m, N>>, <<"csv", m, N>> >>

Yes == {<<"y">>, <<"Y">>}

\* C1: every run of main() gets past the creation of the file handler, and a
\* run that completes leaves experiments/<id>/experiment_<id>.log in the
\* experiment directory.
C1_LogFileKept ==
    entry = "main" =>
      /\ err # "FileHandler: FileNotFoundError"
      /\ pc = "done" => entries["log"] = "file"

\* C2: after train_model returns with N >= 1 epochs, perplexities.csv has N
\* rows, one per epoch with that epoch's train and valid perplexity, and the
\* only row with a test perplexity is the row of epoch N.
C2_PerplexityLog ==
    \A m \in Models :
      returned[m] /\ N >= 1 =>
        /\ Cardinality(csv[m].rows) = N
        /\ \A e \in 1..N :
             \E r \in csv[m].rows :
               /\ r.train = <<"train", m, e>>
               /\ r.valid = <<"valid", m, e>>
               /\ r.test = (IF e = N THEN <<"test", m, N>> ELSE Empty)

\* C3 as stated: a run of experiment() that completes has trained model 1 and
\* then model 2, each for opt.epochs epochs, whatever opt.experiment_id is.
C3_BothModelsTrained ==
    pc = "done" =>
      /\ returned[1]
      /\ returned[2]
      /\ events = ExpectedEvents(1) \o ExpectedEvents(2)

\* C3 amended: a run of experiment() that completes has trained model 1 for
\* opt.epochs epochs and, when opt.experiment_id is not 0, model 2 for
\* opt.epochs epochs after model 1; when opt.experiment_id is 0 model 2 is not
\* trained.
C3_SecondModelUnlessBaseline ==
    pc = "done" =>
      /\ returned[1]
      /\ returned[2] <=> opt.experiment_id # 0
      /\ events = ExpectedEvents(1)
                    \o (IF opt.experiment_id # 0 THEN ExpectedEvents(2) ELSE <<>>)

C3_Witness ==
    /\ pc = "done"
    /\ N = MainEpochs
    /\ returned[1]
    /\ returned[2]
    /\ Len(events) > Len(ExpectedEvents(1))

C5_ClearSwallowsFailures ==
    /\ err = ""
    /\ pc # "crashed"
    /\ dirExists
    /\ pc = "done" => cleared /\ todo = {}
    /\ pc \in {"clearing", "done"} =>
         /\ errlog = undeletable
         /\ \A n \in Names \ todo :
              entries0[n] \in {"file", "link", "dir"} =>
                IF n \in undeletable
                  THEN entries[n] = entries0[n]
                  ELSE entries[n] = Absent

C5_Witness ==
    /\ pc = "done"
    /\ entries0 = [n \in Names |->
                     IF n = "log" THEN "file" ELSE IF n = "models" THEN "dir" ELSE "link"]
    /\ undeletable = {"models"}
    /\ errlog = {"models"}
    /\ entries = [NoEntries EXCEPT !["models"] = "dir"]

\* C6: after train_model returns, the embedding snapshots are those of the
\* epochs 0..N; snapshot 0 holds the weights before any optimizer step and
\* snapshot e the weights after the steps of the epochs 1..e and no other step.
C6_EmbeddingSnapshots ==
    \A m \in Models :
      returned[m] =>
        /\ {s.epoch : s \in snapshots[m]} = 0..N
        /\ Cardinality(snapshots[m]) = N + 1
        /\ \A s \in snapshots[m] :
             s.weights = [init |-> W[m]["embed"].init, upd |-> s.epoch * nb["train"]]

C6_Witness ==
    /\ returned[cur]
    /\ N >= 2
    /\ nb["train"] = 2
    /\ \E s \in snapshots[cur] : s.epoch = 2 /\ s.weights.upd = 4

C8_CheckpointEpochs ==
    \A m \in Models :
      returned[m] /\ N >= 1 =>
        /\ checkpoints[m] = {0, 1} \cup {e \in 1..N : e % 10 = 0}
        /\ N \in checkpoints[m] <=> (N = 1 \/ N % 10 = 0)

C8_Witness ==
    /\ returned[cur]
    /\ N = 10
    /\ checkpoints[cur] = {0, 1, 10}

\* C9: what train_model does is, in this order: snapshot and checkpoint 0; for
\* each epoch its training batches, one validation, its snapshot and, when due,
\* its checkpoint; then one test evaluation, the plot and, last and once, the
\* perplexity log.
C9_EventOrder ==
    /\ IsPrefix(events, ExpectedEvents(cur))
    /\ returned[cur] =>
         /\ events = ExpectedEvents(cur)
         /\ csv[cur].written = 1
         /\ plotted[cur] = 1

C9_Witness ==
    /\ returned[cur]
    /\ N >= 2
    /\ nb["train"] = 2
    /\ events[Len(events)] = <<"csv", cur, N>>

\* C10: every optimizer step of train_model is taken in training mode; every
\* batch of test_model is processed in evaluation mode, and test_model changes
\* no weight.
C10_StepsInTrainMode ==
    [][ /\ W' # W => pc = "batches" /\ mode[cur] = "train"
        /\ pc \in {"test_model", "eval_batches"} => W' = W
        /\ pc = "eval_batches" /\ batch' # batch => mode[cur] = "eval" ]_vars

C10_Witness ==
    /\ pc = "batches"
    /\ epoch >= 2
    /\ batch >= 1
    /\ mode[cur] = "train"
    /\ W[cur]["embed"].upd = (epoch - 1) * nb["train"] + batch

====
